---- MODULE Spec2Model ----
(***************************************************************************)
(* Authorization and tenant-isolation layer of the library-management      *)
(* backend: the session (req.session.owner / .user / .student), the gate   *)
(* middlewares of routes/auth.js and routes/ownerAuth.js, the login /      *)
(* logout / refresh handlers and the four /branches handlers.              *)
(*                                                                         *)
(* One request is one action: the gate in front of a route, then the       *)
(* handler when the gate called next().  The outcome of the request that   *)
(* was served last is kept in the variable last.  A refresh that is        *)
(* suspended on its query is kept in the variable pending.                 *)
(***************************************************************************)
EXTENDS Integers, FiniteSets, Sequences, TLC

VARIABLES session, libraries, users, branches, last, pending

vars == <<session, libraries, users, branches, last, pending>>

---------------------------------------------------------------------------
(* Bounds of the model *)

\* library (tenant) rows in the libraries table: ids 1..MaxLibraries
MaxLibraries == 2
\* rows in the users table: ids 1..MaxUsers
MaxUsers == 1
\* highest branch id the branches table hands out (one row per library exists
\* from the start)
MaxBranches == 3

---------------------------------------------------------------------------
(* JavaScript values *)

\* undefined / null in an object slot (req.session.owner when nobody logged in)
Null == [null |-> TRUE]
\* undefined / null / 0 / "" in a scalar slot: falsy in `a && a.id`
Undefined == 0
\* a permissions column or field that is null / undefined
NullPermissions == {"<null>"}

Truthy(v) == v # Null
TruthyId(id) == id # Undefined

\* `x || []` on a permissions value
OrEmpty(p) == IF p = NullPermissions THEN {} ELSE p

\* String.prototype.toUpperCase on the combinators the model passes
ToUpperCase(s) ==
  CASE s = "and" -> "AND"
    [] s = "or"  -> "OR"
    [] OTHER     -> s

---------------------------------------------------------------------------
(* Domains *)

LibraryIds == 1..MaxLibraries
UserIds    == 1..MaxUsers
BranchIds  == 1..MaxBranches

Perms  == {"manage_branches", "manage_library_students"}
Roles  == {"admin", "staff", "other"}
Logics == {"AND", "and", "OR"}

\* secrets a client may submit; Undefined is the missing / empty field
Secrets == 1..2
\* identifiers a client may submit: every stored one, one unknown, and none
Phones    == 1..(MaxLibraries + 1)
Usernames == 1..(MaxUsers + 1)

---------------------------------------------------------------------------
(* Credential verifier *)

\* bcrypt.hash(password, 10): a one-way digest, never the password itself
BcryptHash(pw) == [alg |-> "bcrypt", rounds |-> 10, of |-> pw]
\* bcrypt.compare(password, hash)
BcryptCompare(pw, hash) == hash = BcryptHash(pw)

---------------------------------------------------------------------------
(* Data layer: the rows the handlers read *)

\* the libraries row of tenant i; its owner's phone is i and password is 1
LibraryRow(i, st) ==
  [id |-> i, library_code |-> i + 100, library_name |-> i + 200,
   owner_name |-> i + 300, owner_email |-> i + 400, owner_phone |-> i,
   password |-> BcryptHash(1), status |-> st]

\* the users row of user i: username i, plaintext password 1
UserRow(i, role, perms) ==
  [id |-> i, username |-> i, password |-> 1, role |-> role, permissions |-> perms]

DbPermissions == (SUBSET Perms) \cup {NullPermissions}

\* SELECT ... FROM libraries WHERE owner_phone = $1
LibrariesByPhone(phone) == {l \in libraries : l.owner_phone = phone}
\* SELECT ... FROM libraries WHERE id = $1
LibrariesById(id) == {l \in libraries : l.id = id}
\* SELECT ... FROM users WHERE username = $1
UsersByUsername(username) == {u \in users : u.username = username}
\* SELECT ... FROM users WHERE id = $1
UsersById(id) == {u \in users : u.id = id}

---------------------------------------------------------------------------
(* Session and request context *)

EmptySession == [owner |-> Null, user |-> Null, student |-> Null]

\* no refresh is waiting for its query
Idle == [phase |-> "idle", session |-> EmptySession]

\* the object the owner login and the owner refresh write into the session
OwnerOf(library) ==
  [id |-> library.id, libraryCode |-> library.library_code,
   libraryName |-> library.library_name, ownerName |-> library.owner_name,
   ownerEmail |-> library.owner_email, role |-> "owner"]

\* the object the user login and the user refresh write into the session
UserOf(user) ==
  [id |-> user.id, username |-> user.username, role |-> user.role,
   permissions |-> OrEmpty(user.permissions)]

\* a request as express hands it to the first middleware of a route
FreshReq == [owner |-> Null, student |-> Null, libraryId |-> Undefined]

\* what a middleware did: called next() or sent one response
Admit(req) == [next |-> TRUE, status |-> 0, message |-> "", req |-> req]
Reject(status, message, req) ==
  [next |-> FALSE, status |-> status, message |-> message, req |-> req]

---------------------------------------------------------------------------
(* Gates of routes/auth.js: each takes the session and the request context *)
(* and either calls next() or sends one rejection                          *)

\* checkPermission that stops at the user it finds and never looks at the owner
checkPermissionUserOnly(permission, s, req) ==
  IF /\ Truthy(s.user)
     /\ \/ s.user.role = "admin"
        \/ s.user.role = "staff"
        \/ permission \in OrEmpty(s.user.permissions)
  THEN Admit(req)
  ELSE IF Truthy(s.owner) /\ ~Truthy(s.user)
  THEN Admit(req)
  ELSE Reject(401, "Unauthorized - Please log in", req)

checkPermission(permission, s, req) ==
  IF /\ Truthy(s.user)
     /\ \/ s.user.role = "admin"
        \/ s.user.role = "staff"
        \/ permission \in OrEmpty(s.user.permissions)
  THEN Admit(req)
  ELSE IF Truthy(s.owner)
  THEN Admit(req)
  ELSE Reject(401, "Unauthorized - Please log in", req)

\* permissions.every(p => userPermissions.includes(p))
Every(permissions, userPermissions) == \A p \in permissions : p \in userPermissions
\* permissions.some(p => userPermissions.includes(p))
Some(permissions, userPermissions) == \E p \in permissions : p \in userPermissions

\* checkPermissions testing the user slot before the owner slot, the order
\* checkPermission uses
checkPermissionsUserFirst(permissions, logic, s, req) ==
  IF Truthy(s.user)
  THEN IF s.user.role = "admin" THEN Admit(req)
       ELSE IF IF ToUpperCase(logic) = "AND"
               THEN Every(permissions, OrEmpty(s.user.permissions))
               ELSE Some(permissions, OrEmpty(s.user.permissions))
       THEN Admit(req)
       ELSE Reject(403, "Forbidden - Insufficient permissions", req)
  ELSE IF Truthy(s.owner) THEN Admit(req)
  ELSE Reject(401, "Unauthorized - Please log in", req)

\* checkPermissions with the staff shortcut of checkPermission
checkPermissionsStaffBypass(permissions, logic, s, req) ==
  IF Truthy(s.owner) THEN Admit(req)
  ELSE IF ~Truthy(s.user)
  THEN Reject(401, "Unauthorized - Please log in", req)
  ELSE IF s.user.role \in {"admin", "staff"} THEN Admit(req)
  ELSE IF IF ToUpperCase(logic) = "AND"
          THEN Every(permissions, OrEmpty(s.user.permissions))
          ELSE Some(permissions, OrEmpty(s.user.permissions))
  THEN Admit(req)
  ELSE Reject(403, "Forbidden - Insufficient permissions", req)

\* checkPermissions that takes an empty requirement for met
checkPermissionsEmptyAdmits(permissions, logic, s, req) ==
  IF Truthy(s.owner) THEN Admit(req)
  ELSE IF ~Truthy(s.user)
  THEN Reject(401, "Unauthorized - Please log in", req)
  ELSE IF s.user.role = "admin" THEN Admit(req)
  ELSE IF \/ permissions = {}
          \/ IF ToUpperCase(logic) = "AND"
             THEN Every(permissions, OrEmpty(s.user.permissions))
             ELSE Some(permissions, OrEmpty(s.user.permissions))
  THEN Admit(req)
  ELSE Reject(403, "Forbidden - Insufficient permissions", req)

\* checkPermissions without the return in front of its 403: it answers and
\* goes on to next()
checkPermissionsFallsThrough(permissions, logic, s, req) ==
  IF Truthy(s.owner) THEN Admit(req)
  ELSE IF ~Truthy(s.user)
  THEN Reject(401, "Unauthorized - Please log in", req)
  ELSE IF s.user.role = "admin" THEN Admit(req)
  ELSE IF IF ToUpperCase(logic) = "AND"
          THEN Every(permissions, OrEmpty(s.user.permissions))
          ELSE Some(permissions, OrEmpty(s.user.permissions))
  THEN Admit(req)
  ELSE [Reject(403, "Forbidden - Insufficient permissions", req)
          EXCEPT !.next = TRUE]

\* checkPermissions without its admin shortcut
checkPermissionsNoAdmin(permissions, logic, s, req) ==
  IF Truthy(s.owner) THEN Admit(req)
  ELSE IF ~Truthy(s.user)
  THEN Reject(401, "Unauthorized - Please log in", req)
  ELSE IF IF ToUpperCase(logic) = "AND"
          THEN Every(permissions, OrEmpty(s.user.permissions))
          ELSE Some(permissions, OrEmpty(s.user.permissions))
  THEN Admit(req)
  ELSE Reject(403, "Forbidden - Insufficient permissions", req)

\* checkPermissions with every and some exchanged
checkPermissionsSwapped(permissions, logic, s, req) ==
  IF Truthy(s.owner) THEN Admit(req)
  ELSE IF ~Truthy(s.user)
  THEN Reject(401, "Unauthorized - Please log in", req)
  ELSE IF s.user.role = "admin" THEN Admit(req)
  ELSE IF IF ToUpperCase(logic) = "AND"
          THEN Some(permissions, OrEmpty(s.user.permissions))
          ELSE Every(permissions, OrEmpty(s.user.permissions))
  THEN Admit(req)
  ELSE Reject(403, "Forbidden - Insufficient permissions", req)

checkPermissions(permissions, logic, s, req) ==
  IF Truthy(s.owner) THEN Admit(req)
  ELSE IF ~Truthy(s.user)
  THEN Reject(401, "Unauthorized - Please log in", req)
  ELSE IF s.user.role = "admin" THEN Admit(req)
  ELSE LET userPermissions == OrEmpty(s.user.permissions)
           hasPermission ==
             IF ToUpperCase(logic) = "AND"
             THEN Every(permissions, userPermissions)
             ELSE Some(permissions, userPermissions)
       IN IF ~hasPermission
          THEN Reject(403, "Forbidden - Insufficient permissions", req)
          ELSE Admit(req)

checkAdmin(s, req) ==
  IF Truthy(s.owner) THEN Admit(req)
  ELSE IF ~Truthy(s.user)
  THEN Reject(401, "Unauthorized - Please log in", req)
  ELSE IF s.user.role # "admin"
  THEN Reject(403, "Forbidden: Admin access required", req)
  ELSE Admit(req)

\* checkAdminOrStaff answering 403 to a session without a user
checkAdminOrStaffForbidden(s, req) ==
  IF Truthy(s.owner) THEN Admit(req)
  ELSE IF Truthy(s.user) /\ (s.user.role = "admin" \/ s.user.role = "staff")
  THEN Admit(req)
  ELSE Reject(403, "Forbidden: Admin or Staff access required", req)

checkAdminOrStaff(s, req) ==
  IF Truthy(s.owner) THEN Admit(req)
  ELSE IF ~Truthy(s.user)
  THEN Reject(401, "Unauthorized - Please log in", req)
  ELSE IF s.user.role = "admin" \/ s.user.role = "staff"
  THEN Admit(req)
  ELSE Reject(403, "Forbidden: Admin or Staff access required", req)

authenticateOwner(s, req) ==
  IF Truthy(s.owner) /\ TruthyId(s.owner.id)
  THEN Admit([req EXCEPT !.owner = s.owner, !.libraryId = s.owner.id])
  ELSE Reject(401, "Unauthorized: Owner access required.", req)

authenticateStudent(s, req) ==
  IF Truthy(s.student) /\ TruthyId(s.student.id)
  THEN Admit([req EXCEPT !.student = s.student])
  ELSE Reject(401, "Unauthorized: Student access required.", req)

authenticateUser(s, req) ==
  IF Truthy(s.user) /\ TruthyId(s.user.id)
  THEN Admit(req)
  ELSE Reject(401, "Unauthorized - Please log in", req)

\* authenticateAny without its student clause
authenticateAnyNoStudent(s, req) ==
  IF \/ Truthy(s.owner) /\ TruthyId(s.owner.id)
     \/ Truthy(s.user) /\ TruthyId(s.user.id)
  THEN Admit(req)
  ELSE Reject(401, "Unauthorized: Please log in.", req)

authenticateAny(s, req) ==
  IF \/ Truthy(s.owner) /\ TruthyId(s.owner.id)
     \/ Truthy(s.user) /\ TruthyId(s.user.id)
     \/ Truthy(s.student) /\ TruthyId(s.student.id)
  THEN Admit(req)
  ELSE Reject(401, "Unauthorized: Please log in.", req)

\* reads req.owner, which authenticateOwner of this file sets
ensureOwnerDataIsolation(s, req) ==
  IF ~Truthy(req.owner)
  THEN Reject(401, "Unauthorized. Owner context is missing.", req)
  ELSE Admit([req EXCEPT !.libraryId = req.owner.id])

---------------------------------------------------------------------------
(* Gates of routes/ownerAuth.js *)

ownerAuthAuthenticateOwner(s, req) ==
  IF Truthy(s.owner) /\ TruthyId(s.owner.id)
  THEN Admit(req)
  ELSE Reject(401, "Unauthorized - Please log in as a library owner", req)

ownerAuthEnsureOwnerDataIsolation(s, req) ==
  IF ~Truthy(s.owner)
  THEN Reject(401, "Unauthorized - Please log in as library owner", req)
  ELSE Admit([req EXCEPT !.libraryId = s.owner.id])

\* two middlewares mounted one after the other: the second runs only when the
\* first called next(), on the request context the first left
Then(first, second) == IF first.next THEN second ELSE first

---------------------------------------------------------------------------
(* The outcome of one request *)

\* nothing served yet; every field a request does not touch keeps this value
NoResult ==
  [op |-> "none",
   required |-> {}, logic |-> "", chained |-> FALSE,   \* what the gate was built with
   ident |-> Undefined, secret |-> Undefined,          \* req.body of a login
   target |-> Undefined,                               \* req.params.id
   next |-> FALSE,                                     \* the gate called next()
   status |-> 0, message |-> "",                       \* the response sent
   principal |-> Null,                                 \* owner / user in the body
   req |-> FreshReq,                                   \* request context at the end
   queried |-> FALSE, queryTenant |-> Undefined,       \* the handler's pool.query
   rows |-> {}, before |-> {},                         \* rows returned, table before
   cookieCleared |-> FALSE,
   isAuthenticated |-> FALSE, userType |-> ""]         \* body of a status read

\* a middleware served alone: its rejection, or next() with nothing behind it
GateResult(op, g) ==
  [NoResult EXCEPT !.op = op, !.next = g.next, !.status = g.status,
                   !.message = g.message, !.req = g.req]

GateOps ==
  {"checkPermission", "checkPermissions", "checkAdmin", "checkAdminOrStaff",
   "authenticateOwner", "authenticateStudent", "authenticateUser",
   "authenticateAny", "ensureOwnerDataIsolation",
   "ownerAuth.authenticateOwner", "ownerAuth.ensureOwnerDataIsolation"}

Frame == UNCHANGED <<session, libraries, users, branches, pending>>

---------------------------------------------------------------------------
(* A request to a route guarded by one gate *)

CallCheckPermission ==
  \E p \in Perms :
    /\ last' = [GateResult("checkPermission", checkPermission(p, session, FreshReq))
                  EXCEPT !.required = {p}]
    /\ Frame

CallCheckPermissions ==
  \E R \in SUBSET Perms, logic \in Logics :
    /\ last' = [GateResult("checkPermissions",
                           checkPermissions(R, logic, session, FreshReq))
                  EXCEPT !.required = R, !.logic = logic]
    /\ Frame

CallCheckAdmin ==
  /\ last' = GateResult("checkAdmin", checkAdmin(session, FreshReq))
  /\ Frame

CallCheckAdminOrStaff ==
  /\ last' = GateResult("checkAdminOrStaff", checkAdminOrStaff(session, FreshReq))
  /\ Frame

\* authenticateOwner that drops the session of whoever it turns away
CallAuthenticateOwnerDropsSession ==
  LET g == authenticateOwner(session, FreshReq)
  IN /\ last' = GateResult("authenticateOwner", g)
     /\ session' = IF g.next THEN session ELSE EmptySession
     /\ UNCHANGED <<libraries, users, branches, pending>>

CallAuthenticateOwner ==
  /\ last' = GateResult("authenticateOwner", authenticateOwner(session, FreshReq))
  /\ Frame

CallAuthenticateStudent ==
  /\ last' = GateResult("authenticateStudent", authenticateStudent(session, FreshReq))
  /\ Frame

CallAuthenticateUser ==
  /\ last' = GateResult("authenticateUser", authenticateUser(session, FreshReq))
  /\ Frame

CallAuthenticateAny ==
  /\ last' = GateResult("authenticateAny", authenticateAny(session, FreshReq))
  /\ Frame

\* ensureOwnerDataIsolation of auth.js, mounted alone or after authenticateOwner
\* as its comment asks
CallEnsureOwnerDataIsolation ==
  \E chained \in BOOLEAN :
    /\ last' =
         [GateResult("ensureOwnerDataIsolation",
            IF chained
            THEN LET first == authenticateOwner(session, FreshReq)
                 IN Then(first, ensureOwnerDataIsolation(session, first.req))
            ELSE ensureOwnerDataIsolation(session, FreshReq))
          EXCEPT !.chained = chained]
    /\ Frame

CallOwnerAuthAuthenticateOwner ==
  /\ last' = GateResult("ownerAuth.authenticateOwner",
                        ownerAuthAuthenticateOwner(session, FreshReq))
  /\ Frame

\* ensureOwnerDataIsolation of ownerAuth.js, alone or after its authenticateOwner
CallOwnerAuthEnsureOwnerDataIsolation ==
  \E chained \in BOOLEAN :
    /\ last' =
         [GateResult("ownerAuth.ensureOwnerDataIsolation",
            IF chained
            THEN LET first == ownerAuthAuthenticateOwner(session, FreshReq)
                 IN Then(first, ownerAuthEnsureOwnerDataIsolation(session, first.req))
            ELSE ownerAuthEnsureOwnerDataIsolation(session, FreshReq))
          EXCEPT !.chained = chained]
    /\ Frame

---------------------------------------------------------------------------
(* routes/branches.js *)

\* req.body a client may send; "" is a missing field
Bodies ==
  {[name |-> "", code |-> ""], [name |-> "annex", code |-> ""],
   [name |-> "annex", code |-> "B2"]}
\* the SQL NULL a missing code is stored as
NullCode == "<null>"
\* `code || null`
OrNull(code) == IF code = "" THEN NullCode ELSE code

BranchRow(id, name, code, libraryId) ==
  [id |-> id, name |-> name, code |-> code, library_id |-> libraryId]

\* `column = $n` in a WHERE clause: never true when either side is NULL
\* (node-postgres sends an undefined parameter as NULL)
SqlEq(column, param) ==
  column # Undefined /\ param # Undefined /\ column = param

\* SELECT * FROM branches WHERE library_id = $1
SelectBranches(libraryId) == {b \in branches : SqlEq(b.library_id, libraryId)}

\* UPDATE / DELETE ... WHERE id = $n, the tenant filter forgotten
MatchBranchAnyTenant(id, libraryId) == {b \in branches : SqlEq(b.id, id)}

\* the rows of UPDATE / DELETE ... WHERE id = $n AND library_id = $m
MatchBranch(id, libraryId) ==
  {b \in branches : SqlEq(b.id, id) /\ SqlEq(b.library_id, libraryId)}

\* the id the table gives the next inserted row
NextBranchId ==
  IF branches = {} THEN 1
  ELSE 1 + (CHOOSE m \in {b.id : b \in branches} : \A b \in branches : b.id <= m)

\* pool.query rejected: the handler's catch answers 500
ServerError(res) ==
  [res EXCEPT !.status = 500, !.message = "Server error", !.queried = TRUE,
              !.queryTenant = res.req.libraryId]

GetBranchesGate(s, req) ==
  checkPermissions({"manage_branches", "manage_library_students"}, "OR", s, req)

\* checkPermissions(['manage_branches']): the combinator defaults to 'OR'
WriteBranchesGate(s, req) == checkPermissions({"manage_branches"}, "OR", s, req)

GetBranches ==
  LET g == GetBranchesGate(session, FreshReq)
      res == [GateResult("GET /branches", g) EXCEPT !.before = branches]
  IN /\ \E dbFails \in BOOLEAN :
          IF ~g.next THEN ~dbFails /\ last' = res
          ELSE IF dbFails THEN last' = ServerError(res)
          ELSE last' = [res EXCEPT !.status = 200, !.queried = TRUE,
                                   !.queryTenant = g.req.libraryId,
                                   !.rows = SelectBranches(g.req.libraryId)]
     /\ Frame

PostBranches ==
  LET g == WriteBranchesGate(session, FreshReq)
      res == [GateResult("POST /branches", g) EXCEPT !.before = branches]
  IN \E body \in Bodies, dbFails \in BOOLEAN :
       IF ~g.next
       THEN /\ ~dbFails
            /\ last' = res
            /\ Frame
       ELSE IF body.name = ""
       THEN /\ ~dbFails
            /\ last' = [res EXCEPT !.status = 400,
                                   !.message = "Branch name is required"]
            /\ Frame
       ELSE IF dbFails
       THEN /\ last' = ServerError(res)
            /\ Frame
       ELSE LET row == BranchRow(NextBranchId, body.name, OrNull(body.code),
                                 g.req.libraryId)
            IN /\ NextBranchId <= MaxBranches
               /\ branches' = branches \cup {row}
               /\ last' = [res EXCEPT !.status = 201, !.queried = TRUE,
                                      !.queryTenant = g.req.libraryId,
                                      !.rows = {row}]
               /\ UNCHANGED <<session, libraries, users, pending>>

PutBranches ==
  LET g == WriteBranchesGate(session, FreshReq)
  IN \E id \in BranchIds, body \in Bodies, dbFails \in BOOLEAN :
       LET res == [GateResult("PUT /branches/:id", g)
                     EXCEPT !.before = branches, !.target = id]
           hit == MatchBranch(id, g.req.libraryId)
           updated == {[b EXCEPT !.name = body.name, !.code = OrNull(body.code)] :
                         b \in hit}
       IN IF ~g.next
          THEN /\ ~dbFails
               /\ last' = res
               /\ Frame
          ELSE IF dbFails
          THEN /\ last' = ServerError(res)
               /\ Frame
          ELSE /\ branches' = (branches \ hit) \cup updated
               /\ last' = IF updated = {}
                          THEN [res EXCEPT !.status = 404,
                                           !.message = "Branch not found",
                                           !.queried = TRUE,
                                           !.queryTenant = g.req.libraryId]
                          ELSE [res EXCEPT !.status = 200, !.queried = TRUE,
                                           !.queryTenant = g.req.libraryId,
                                           !.rows = updated]
               /\ UNCHANGED <<session, libraries, users, pending>>

DeleteBranches ==
  LET g == WriteBranchesGate(session, FreshReq)
  IN \E id \in BranchIds, dbFails \in BOOLEAN :
       LET res == [GateResult("DELETE /branches/:id", g)
                     EXCEPT !.before = branches, !.target = id]
           hit == MatchBranch(id, g.req.libraryId)
       IN IF ~g.next
          THEN /\ ~dbFails
               /\ last' = res
               /\ Frame
          ELSE IF dbFails
          THEN /\ last' = ServerError(res)
               /\ Frame
          ELSE /\ branches' = branches \ hit
               /\ last' = IF hit = {}
                          THEN [res EXCEPT !.status = 404,
                                           !.message = "Branch not found",
                                           !.queried = TRUE,
                                           !.queryTenant = g.req.libraryId]
                          ELSE [res EXCEPT !.status = 200,
                                           !.message = "Branch deleted",
                                           !.queried = TRUE,
                                           !.queryTenant = g.req.libraryId]
               /\ UNCHANGED <<session, libraries, users, pending>>

BranchOps ==
  {"GET /branches", "POST /branches", "PUT /branches/:id", "DELETE /branches/:id"}

---------------------------------------------------------------------------
(* Login, logout and refresh handlers *)

\* what an awaited call threw, "" when it returned
Errors == {"", "SASL: SCRAM-SERVER-FINAL-MESSAGE: server signature is missing",
           "connect ETIMEDOUT"}

\* isDbAuthError of ownerAuth.js, on the messages above
isDbAuthError(err) ==
  err = "SASL: SCRAM-SERVER-FINAL-MESSAGE: server signature is missing"

DbAuthFailed ==
  "Database authentication failed. Check DB credentials and SSL settings in environment variables. If using DATABASE_URL on a platform like Render, ensure SSL is enabled."

\* rows[0] of a query result
First(rows) == CHOOSE r \in rows : \A q \in rows : r.id <= q.id

\* router.post('/login') of ownerAuth.js
OwnerLogin ==
  \E phone \in Phones \cup {Undefined}, password \in Secrets \cup {Undefined},
     err \in Errors :
    LET res == [NoResult EXCEPT !.op = "POST /owner-auth/login", !.next = TRUE,
                                !.ident = phone, !.secret = password]
        rows == LibrariesByPhone(phone)
        library == First(rows)
    IN IF phone = Undefined \/ password = Undefined
       THEN /\ err = ""
            /\ last' = [res EXCEPT !.status = 400,
                          !.message = "Phone number and password are required"]
            /\ Frame
       ELSE IF err # ""
       THEN /\ last' = [res EXCEPT !.status = 500, !.queried = TRUE,
                          !.message = IF isDbAuthError(err) THEN DbAuthFailed
                                      ELSE "Server error during login"]
            /\ Frame
       ELSE IF rows = {}
       THEN /\ last' = [res EXCEPT !.status = 401, !.queried = TRUE,
                                   !.message = "Invalid credentials"]
            /\ Frame
       ELSE IF library.status # "active"
       THEN /\ last' = [res EXCEPT !.status = 401, !.queried = TRUE,
                          !.message = "Library account is suspended. Please contact support."]
            /\ Frame
       ELSE IF ~BcryptCompare(password, library.password)
       THEN /\ last' = [res EXCEPT !.status = 401, !.queried = TRUE,
                                   !.message = "Invalid credentials"]
            /\ Frame
       ELSE /\ session' = [session EXCEPT !.owner = OwnerOf(library)]
            /\ last' = [res EXCEPT !.status = 200, !.queried = TRUE,
                                   !.message = "Login successful",
                                   !.principal = OwnerOf(library)]
            /\ UNCHANGED <<libraries, users, branches, pending>>

\* the user login with the session write moved in front of the password test
UserLoginWritesFirst ==
  \E username \in Usernames \cup {Undefined}, password \in Secrets \cup {Undefined},
     err \in Errors :
    LET res == [NoResult EXCEPT !.op = "POST /auth/login", !.next = TRUE,
                                !.ident = username, !.secret = password]
        rows == UsersByUsername(username)
        user == First(rows)
    IN IF username = Undefined \/ password = Undefined
       THEN /\ err = ""
            /\ last' = [res EXCEPT !.status = 400,
                          !.message = "Username and password are required"]
            /\ Frame
       ELSE IF err # ""
       THEN /\ last' = [res EXCEPT !.status = 500, !.queried = TRUE,
                                   !.message = "Server error during login"]
            /\ Frame
       ELSE IF rows = {}
       THEN /\ last' = [res EXCEPT !.status = 401, !.queried = TRUE,
                                   !.message = "Invalid credentials"]
            /\ Frame
       ELSE /\ session' = [session EXCEPT !.user = UserOf(user)]
            /\ last' = IF password # user.password
                       THEN [res EXCEPT !.status = 401, !.queried = TRUE,
                                        !.message = "Invalid credentials"]
                       ELSE [res EXCEPT !.status = 200, !.queried = TRUE,
                                        !.message = "Login successful",
                                        !.principal = UserOf(user)]
            /\ UNCHANGED <<libraries, users, branches, pending>>

\* router.post('/login') of auth.js
UserLogin ==
  \E username \in Usernames \cup {Undefined}, password \in Secrets \cup {Undefined},
     err \in Errors :
    LET res == [NoResult EXCEPT !.op = "POST /auth/login", !.next = TRUE,
                                !.ident = username, !.secret = password]
        rows == UsersByUsername(username)
        user == First(rows)
    IN IF username = Undefined \/ password = Undefined
       THEN /\ err = ""
            /\ last' = [res EXCEPT !.status = 400,
                          !.message = "Username and password are required"]
            /\ Frame
       ELSE IF err # ""
       THEN /\ last' = [res EXCEPT !.status = 500, !.queried = TRUE,
                                   !.message = "Server error during login"]
            /\ Frame
       ELSE IF rows = {}
       THEN /\ last' = [res EXCEPT !.status = 401, !.queried = TRUE,
                                   !.message = "Invalid credentials"]
            /\ Frame
       ELSE IF password # user.password
       THEN /\ last' = [res EXCEPT !.status = 401, !.queried = TRUE,
                                   !.message = "Invalid credentials"]
            /\ Frame
       ELSE /\ session' = [session EXCEPT !.user = UserOf(user)]
            /\ last' = [res EXCEPT !.status = 200, !.queried = TRUE,
                                   !.message = "Login successful",
                                   !.principal = UserOf(user)]
            /\ UNCHANGED <<libraries, users, branches, pending>>

\* a logout that answers and clears the cookie but leaves the session in place
DestroyKeepsSession(op) ==
  /\ last' = [NoResult EXCEPT !.op = op, !.next = TRUE, !.status = 200,
                              !.message = "Logout successful",
                              !.cookieCleared = TRUE]
  /\ Frame

\* req.session.destroy(callback) and the callback both logout handlers pass:
\* when destroy reports an error the store may or may not still hold the session
Destroy(op) ==
  \E destroyed \in BOOLEAN, kept \in BOOLEAN :
    LET res == [NoResult EXCEPT !.op = op, !.next = TRUE]
    IN /\ IF destroyed
          THEN /\ ~kept
               /\ session' = EmptySession
               /\ last' = [res EXCEPT !.status = 200, !.message = "Logout successful",
                                      !.cookieCleared = TRUE]
          ELSE /\ session' = IF kept THEN session ELSE EmptySession
               /\ last' = [res EXCEPT !.status = 500,
                             !.message = "Could not log out, please try again."]
       /\ UNCHANGED <<libraries, users, branches, pending>>

\* router.post('/logout') of ownerAuth.js
OwnerLogout == Destroy("POST /owner-auth/logout")

\* router.get('/logout') of auth.js
Logout == Destroy("GET /auth/logout")

\* the refresh that drops from the session a principal whose row is gone
RefreshDropsMissing ==
  LET g == authenticateAny(session, FreshReq)
      res == GateResult("GET /auth/refresh", g)
  IN \E err \in {"", "connect ETIMEDOUT"} :
       IF ~g.next
       THEN /\ err = ""
            /\ last' = res
            /\ Frame
       ELSE IF Truthy(session.owner) /\ TruthyId(session.owner.id)
       THEN LET rows == LibrariesById(session.owner.id)
            IN IF err # ""
               THEN /\ last' = [res EXCEPT !.status = 500, !.queried = TRUE,
                                           !.message = "Internal Server Error"]
                    /\ Frame
               ELSE IF rows = {}
               THEN /\ last' = [res EXCEPT !.status = 404, !.queried = TRUE,
                                           !.message = "Library owner not found"]
                    /\ session' = [session EXCEPT !.owner = Null]
                    /\ UNCHANGED <<libraries, users, branches, pending>>
               ELSE /\ session' = [session EXCEPT !.owner = OwnerOf(First(rows))]
                    /\ last' = [res EXCEPT !.status = 200, !.queried = TRUE,
                                           !.message = "Session refreshed",
                                           !.principal = OwnerOf(First(rows))]
                    /\ UNCHANGED <<libraries, users, branches, pending>>
       ELSE IF Truthy(session.user) /\ TruthyId(session.user.id)
       THEN LET rows == UsersById(session.user.id)
            IN IF err # ""
               THEN /\ last' = [res EXCEPT !.status = 500, !.queried = TRUE,
                                           !.message = "Internal Server Error"]
                    /\ Frame
               ELSE IF rows = {}
               THEN /\ last' = [res EXCEPT !.status = 404, !.queried = TRUE,
                                           !.message = "User not found"]
                    /\ session' = [session EXCEPT !.user = Null]
                    /\ UNCHANGED <<libraries, users, branches, pending>>
               ELSE /\ session' = [session EXCEPT !.user = UserOf(First(rows))]
                    /\ last' = [res EXCEPT !.status = 200, !.queried = TRUE,
                                           !.message = "Session refreshed",
                                           !.principal = UserOf(First(rows))]
                    /\ UNCHANGED <<libraries, users, branches, pending>>
       ELSE /\ err = ""
            /\ last' = [res EXCEPT !.status = 400,
                                   !.message = "No active session to refresh."]
            /\ Frame

\* router.get('/refresh', authenticateAny, ...) of auth.js
Refresh ==
  LET g == authenticateAny(session, FreshReq)
      res == GateResult("GET /auth/refresh", g)
  IN \E err \in {"", "connect ETIMEDOUT"} :
       IF ~g.next
       THEN /\ err = ""
            /\ last' = res
            /\ Frame
       ELSE IF Truthy(session.owner) /\ TruthyId(session.owner.id)
       THEN LET rows == LibrariesById(session.owner.id)
            IN IF err # ""
               THEN /\ last' = [res EXCEPT !.status = 500, !.queried = TRUE,
                                           !.message = "Internal Server Error"]
                    /\ Frame
               ELSE IF rows = {}
               THEN /\ last' = [res EXCEPT !.status = 404, !.queried = TRUE,
                                           !.message = "Library owner not found"]
                    /\ Frame
               ELSE /\ session' = [session EXCEPT !.owner = OwnerOf(First(rows))]
                    /\ last' = [res EXCEPT !.status = 200, !.queried = TRUE,
                                           !.message = "Session refreshed",
                                           !.principal = OwnerOf(First(rows))]
                    /\ UNCHANGED <<libraries, users, branches, pending>>
       ELSE IF Truthy(session.user) /\ TruthyId(session.user.id)
       THEN LET rows == UsersById(session.user.id)
            IN IF err # ""
               THEN /\ last' = [res EXCEPT !.status = 500, !.queried = TRUE,
                                           !.message = "Internal Server Error"]
                    /\ Frame
               ELSE IF rows = {}
               THEN /\ last' = [res EXCEPT !.status = 404, !.queried = TRUE,
                                           !.message = "User not found"]
                    /\ Frame
               ELSE /\ session' = [session EXCEPT !.user = UserOf(First(rows))]
                    /\ last' = [res EXCEPT !.status = 200, !.queried = TRUE,
                                           !.message = "Session refreshed",
                                           !.principal = UserOf(First(rows))]
                    /\ UNCHANGED <<libraries, users, branches, pending>>
       ELSE /\ err = ""
            /\ last' = [res EXCEPT !.status = 400,
                                   !.message = "No active session to refresh."]
            /\ Frame

---------------------------------------------------------------------------
(* The refresh as two steps around its await.  The session middleware      *)
(* loads req.session from the store when the request arrives and writes it *)
(* back when the response ends: always when it was modified, and when it   *)
(* was not, only under the resave option, which the session setup decides. *)

\* router.get('/refresh') from the arrival of the request to await pool.query
RefreshBegin ==
  LET g == authenticateAny(session, FreshReq)
      res == GateResult("GET /auth/refresh", g)
  IN /\ pending.phase = "idle"
     /\ IF ~g.next
        THEN /\ last' = res
             /\ Frame
        ELSE IF \/ Truthy(session.owner) /\ TruthyId(session.owner.id)
                \/ Truthy(session.user) /\ TruthyId(session.user.id)
        THEN /\ pending' = [phase |-> "awaiting", session |-> session]
             /\ UNCHANGED <<session, libraries, users, branches, last>>
        ELSE /\ last' = [res EXCEPT !.status = 400,
                                    !.message = "No active session to refresh."]
             /\ Frame

\* the response of the resumed refresh on its own req.session and the row read
RefreshAnswer(rows, err, found, notFound) ==
  LET res == [NoResult EXCEPT !.op = "GET /auth/refresh", !.next = TRUE,
                              !.queried = TRUE]
  IN IF err # ""
     THEN [res EXCEPT !.status = 500, !.message = "Internal Server Error"]
     ELSE IF rows = {}
     THEN [res EXCEPT !.status = 404, !.message = notFound]
     ELSE [res EXCEPT !.status = 200, !.message = "Session refreshed",
                      !.principal = found]

\* router.get('/refresh') from the return of pool.query to the end of the
\* response, where the session middleware stores req.session
RefreshEnd ==
  \E err \in {"", "connect ETIMEDOUT"}, resave \in BOOLEAN :
    LET loaded == pending.session
        byOwner == Truthy(loaded.owner) /\ TruthyId(loaded.owner.id)
        rows == IF byOwner THEN LibrariesById(loaded.owner.id)
                ELSE UsersById(loaded.user.id)
        found == IF byOwner THEN OwnerOf(First(rows)) ELSE UserOf(First(rows))
        answer == RefreshAnswer(rows, err, found,
                    IF byOwner THEN "Library owner not found" ELSE "User not found")
        written == IF answer.status # 200 THEN loaded
                   ELSE IF byOwner THEN [loaded EXCEPT !.owner = found]
                   ELSE [loaded EXCEPT !.user = found]
    IN /\ pending.phase = "awaiting"
       /\ last' = answer
       /\ session' = IF written # loaded \/ resave THEN written ELSE session
       /\ pending' = Idle
       /\ UNCHANGED <<libraries, users, branches>>

---------------------------------------------------------------------------
(* Status reads *)

\* o.f of a JS object: undefined when the object has no such property
Prop(o, f) == IF f \in DOMAIN o THEN o[f] ELSE Undefined

\* the response of router.get('/status') of ownerAuth.js on session s
OwnerStatusBody(s) ==
  LET res == [NoResult EXCEPT !.op = "GET /owner-auth/status", !.next = TRUE,
                              !.status = 200]
  IN IF Truthy(s.owner)
     THEN [res EXCEPT !.isAuthenticated = TRUE, !.principal = s.owner]
     ELSE res

\* the response of router.get('/status') of auth.js on session s
StatusBody(s) ==
  LET res == [NoResult EXCEPT !.op = "GET /auth/status", !.next = TRUE,
                              !.status = 200]
  IN IF Truthy(s.owner)
     THEN [res EXCEPT !.isAuthenticated = TRUE, !.userType = "owner",
                      !.principal = [id |-> Prop(s.owner, "id"),
                                     name |-> Prop(s.owner, "name"),
                                     email |-> Prop(s.owner, "email"),
                                     library_code |-> Prop(s.owner, "library_code")]]
     ELSE IF Truthy(s.user)
     THEN [res EXCEPT !.isAuthenticated = TRUE, !.userType = "user",
                      !.principal = [id |-> Prop(s.user, "id"),
                                     username |-> Prop(s.user, "username"),
                                     role |-> Prop(s.user, "role"),
                                     permissions |->
                                       OrEmpty(Prop(s.user, "permissions"))]]
     ELSE res

OwnerStatus == last' = OwnerStatusBody(session) /\ Frame

Status == last' = StatusBody(session) /\ Frame

---------------------------------------------------------------------------
(* The data layer changes under the handlers: an administrator edits a     *)
(* user's role or permissions, a library is suspended or reactivated       *)

UpdateUser ==
  \E u \in users, role \in Roles, perms \in DbPermissions :
    /\ users' = (users \ {u}) \cup {UserRow(u.id, role, perms)}
    /\ UNCHANGED <<session, libraries, branches, last, pending>>

SetLibraryStatus ==
  \E l \in libraries, st \in {"active", "suspended"} :
    /\ libraries' = (libraries \ {l}) \cup {LibraryRow(l.id, st)}
    /\ UNCHANGED <<session, users, branches, last, pending>>

\* rows disappear: a user is removed, a library is removed
DeleteUser ==
  \E u \in users :
    /\ users' = users \ {u}
    /\ UNCHANGED <<session, libraries, branches, last, pending>>

DeleteLibrary ==
  \E l \in libraries :
    /\ libraries' = libraries \ {l}
    /\ UNCHANGED <<session, users, branches, last, pending>>

---------------------------------------------------------------------------
(* Specifications *)
(*                                                                         *)
(* SpecAuth   one session from its first request: logins, refresh, status  *)
(*            reads, logouts and a changing data layer.                    *)
(* SpecRoutes one session from its first request: logins, logouts, every   *)
(*            gate and the /branches routes, over unchanged users and      *)
(*            libraries tables.                                            *)
(* SpecRefresh  the refresh on every shape the session slots can take,     *)
(*            while rows of users and libraries are removed.               *)
(* SpecRace   one session with a refresh split at its await, overlapping   *)
(*            logins, logouts and changes of the users table.              *)
(* SpecGates  every gate and the /branches routes on every shape the       *)
(*            session slots can take, including those no handler of these  *)
(*            files writes (a student, an owner object without id).        *)

InitData ==
  /\ libraries = {LibraryRow(i, "active") : i \in LibraryIds}
  /\ users = {UserRow(i, "staff", {"manage_library_students"}) : i \in UserIds}
  /\ branches = {BranchRow(i, "main", NullCode, i) : i \in LibraryIds}
  /\ last = NoResult
  /\ pending = Idle

\* a new client: express-session starts it with an empty session
Init == session = EmptySession /\ InitData

Gates ==
  \/ CallCheckPermission
  \/ CallCheckPermissions
  \/ CallCheckAdmin
  \/ CallCheckAdminOrStaff
  \/ CallAuthenticateOwner
  \/ CallAuthenticateStudent
  \/ CallAuthenticateUser
  \/ CallAuthenticateAny
  \/ CallEnsureOwnerDataIsolation
  \/ CallOwnerAuthAuthenticateOwner
  \/ CallOwnerAuthEnsureOwnerDataIsolation

Branches == GetBranches \/ PostBranches \/ PutBranches \/ DeleteBranches

Logins == OwnerLogin \/ UserLogin

Logouts == OwnerLogout \/ Logout

DataLayer == UpdateUser \/ SetLibraryStatus

Reads == OwnerStatus \/ Status

\* one client's session from its first request on: logins, refresh and logouts
\* while the data layer changes
NextAuth == Logins \/ Logouts \/ Refresh \/ Reads \/ DataLayer

SpecAuth == Init /\ [][NextAuth]_vars

\* one client's session from its first request on: logins, logouts and requests
\* to the guarded routes
NextRoutes == Logins \/ Logouts \/ Gates \/ Branches

SpecRoutes == Init /\ [][NextRoutes]_vars

\* every shape the three session slots can take, whoever wrote them
SessionOwners ==
  {Null} \cup {OwnerOf(LibraryRow(i, "active")) : i \in LibraryIds}
         \cup {[OwnerOf(LibraryRow(i, "active")) EXCEPT !.id = Undefined] : i \in LibraryIds}
SessionUsers ==
  {Null} \cup {[id |-> i, username |-> 1, role |-> r, permissions |-> p] :
                 i \in {Undefined, 1}, r \in Roles, p \in DbPermissions}
SessionStudents ==
  {Null} \cup {[id |-> i, tenantId |-> 1] : i \in {Undefined, 1}}

InitAnySession ==
  /\ session \in [owner : SessionOwners, user : SessionUsers, student : SessionStudents]
  /\ InitData

Deletes == DeleteUser \/ DeleteLibrary

\* refreshes of any session while rows are removed
SpecRefresh == InitAnySession /\ [][Refresh \/ Deletes]_vars

\* one client's session while a refresh is suspended on its query: user
\* logins, logouts and changes of the users table run in between
NextRace == UserLogin \/ Logout \/ RefreshBegin \/ RefreshEnd \/ UpdateUser

SpecRace == Init /\ [][NextRace]_vars

\* the gates and the routes they guard, served on any session
SpecGates == InitAnySession /\ [][Gates \/ Branches]_vars

---------------------------------------------------------------------------
(* Properties *)

\* the gate in front of the request served last was checkPermissions
ByCheckPermissions == last.op = "checkPermissions" \/ last.op \in BranchOps

Admitted == last.next /\ last.status \notin {401, 403}

\* C1: whenever the session holds an owner, checkPermissions calls next and
\* answers neither 401 nor 403, whatever it requires and whatever else the
\* session holds
C1_OwnerBypass ==
  (ByCheckPermissions /\ Truthy(session.owner)) => Admitted

\* an owner beside a user without permissions passed checkPermissions(all, AND)
C1_Witness ==
  /\ last.op = "checkPermissions" /\ last.required = Perms /\ last.logic = "AND"
  /\ Truthy(session.owner) /\ Truthy(session.user)
  /\ session.user.role = "other" /\ session.user.permissions = {}
  /\ Admitted

\* C2: whenever the session's user has role admin, checkPermissions calls next
\* and answers neither 401 nor 403, whatever it requires
C2_AdminBypass ==
  (ByCheckPermissions /\ Truthy(session.user) /\ session.user.role = "admin")
    => Admitted

\* an admin without any permission and without an owner passed
\* checkPermissions(all, AND)
C2_Witness ==
  /\ last.op = "checkPermissions" /\ last.required = Perms /\ last.logic = "AND"
  /\ ~Truthy(session.owner) /\ Truthy(session.user)
  /\ session.user.role = "admin" /\ OrEmpty(session.user.permissions) = {}
  /\ Admitted

\* the session's principal is a user who is not an admin
NonAdminUser ==
  ~Truthy(session.owner) /\ Truthy(session.user) /\ session.user.role # "admin"

\* C3: for a non-admin user, checkPermissions(R, 'AND') admits iff R is a subset
\* of the user's permissions and checkPermissions(R, 'OR') admits iff R meets
\* them; a refusal is a 403; a user holding only manage_library_students passes
\* GET /branches and gets 403 on POST, PUT and DELETE /branches
C3_SetSemantics ==
  NonAdminUser =>
    LET held == OrEmpty(session.user.permissions)
    IN /\ (last.op = "checkPermissions" /\ last.logic = "AND")
            => (last.next <=> last.required \subseteq held)
       /\ (last.op = "checkPermissions" /\ last.logic = "OR")
            => (last.next <=> last.required \cap held # {})
       /\ (ByCheckPermissions /\ ~last.next) => last.status = 403
       /\ (last.op = "GET /branches" /\ held = {"manage_library_students"})
            => Admitted
       /\ (last.op \in BranchOps \ {"GET /branches"}
            /\ held = {"manage_library_students"})
            => (~last.next /\ last.status = 403)

\* a staff user holding one of two required permissions was refused by AND
C3_Witness ==
  /\ NonAdminUser /\ session.user.role = "staff"
  /\ session.user.permissions = {"manage_library_students"}
  /\ last.op = "checkPermissions" /\ last.logic = "AND" /\ last.required = Perms
  /\ ~last.next /\ last.status = 403

\* C4: on a session without owner, user and student every gate, and every
\* route behind a gate, answers 401 and does not call next
C4_AnonymousRejected ==
  (session = EmptySession /\ last.op \in GateOps \cup BranchOps)
    => (~last.next /\ last.status = 401)

\* the admin-or-staff gate turned an anonymous session away with 401
C4_Witness ==
  /\ session = EmptySession /\ last.op = "checkAdminOrStaff"
  /\ ~last.next /\ last.status = 401

\* the principal slots of the session that are set
ActiveSlots ==
  {slot \in {"owner", "user", "student"} : Truthy(session[slot])}

\* C5: after any sequence of owner login, user login, refresh and logout on one
\* session, at most one of session.owner, session.user, session.student is set
C5_AtMostOnePrincipal == Cardinality(ActiveSlots) <= 1

\* C6: whenever a /branches handler runs its query, req.libraryId is set, and
\* for a session with an owner it is the owner's id
C6_TenantBoundBeforeQuery ==
  (last.op \in BranchOps /\ last.queried) =>
    /\ last.queryTenant # Undefined
    /\ Truthy(session.owner) => last.queryTenant = session.owner.id

\* the session's principal is an owner bound to a tenant
OwnerTenant == Truthy(session.owner) /\ TruthyId(session.owner.id)

\* rows of the branches table, as it was before the request served last, that
\* belong to another tenant than the session's owner
ForeignRows == {b \in last.before : b.library_id # session.owner.id}

\* C7 as stated: a row of another tenant never comes back from GET /branches,
\* and PUT and DELETE on its id leave it as it was and answer 404
C7_AlwaysNotFound ==
  (OwnerTenant /\ last.op \in BranchOps) =>
    \A b \in ForeignRows :
      /\ b \notin last.rows
      /\ b \in branches
      /\ (last.op \in {"PUT /branches/:id", "DELETE /branches/:id"}
            /\ last.target = b.id) => last.status = 404

\* C7 as amended: a row of another tenant never comes back from a /branches
\* route and is never changed; PUT and DELETE on its id answer 404 when the
\* query returned and 500 "Server error" when it threw, never 401 or 403
C7_TenantIsolation ==
  (OwnerTenant /\ last.op \in BranchOps) =>
    \A b \in ForeignRows :
      /\ b \notin last.rows
      /\ b \in branches
      /\ (last.op \in {"PUT /branches/:id", "DELETE /branches/:id"}
            /\ last.target = b.id)
           => \/ last.status = 404 /\ last.message = "Branch not found"
              \/ last.status = 500 /\ last.message = "Server error"

\* the owner of tenant 1 asked to rename the branch of tenant 2 and got 404
C7_Witness ==
  /\ OwnerTenant /\ session.owner.id = 1
  /\ last.op = "PUT /branches/:id" /\ last.target = 2
  /\ BranchRow(2, "main", NullCode, 2) \in last.before
  /\ BranchRow(2, "main", NullCode, 2) \in branches
  /\ last.status = 404

\* C8: each authenticateOwner calls next iff the session holds an owner with an
\* id, then with req.libraryId equal to that id, and answers 401 otherwise
C8_RequireOwnerBindsTenant ==
  (last.op \in {"authenticateOwner", "ownerAuth.authenticateOwner"}) =>
    /\ last.next <=> OwnerTenant
    /\ last.next => last.req.libraryId = session.owner.id
    /\ ~last.next => last.status = 401

\* C9: when the session's owner has no id, authenticateOwner, both
\* ensureOwnerDataIsolation and checkPermissions answer 401 and do not call next
C9_OwnerWithoutIdRejected ==
  ( /\ Truthy(session.owner) /\ ~TruthyId(session.owner.id)
    /\ last.op \in {"authenticateOwner", "ownerAuth.authenticateOwner",
                    "ensureOwnerDataIsolation",
                    "ownerAuth.ensureOwnerDataIsolation", "checkPermissions"}
                     \cup BranchOps )
    => (~last.next /\ last.status = 401)

\* a login with both fields given whose identifier is not stored, or is stored
\* with another secret
UnknownOrWrongSecret ==
  \/ /\ last.op = "POST /owner-auth/login"
     /\ \A l \in LibrariesByPhone(last.ident) :
          ~BcryptCompare(last.secret, l.password)
  \/ /\ last.op = "POST /auth/login"
     /\ \A u \in UsersByUsername(last.ident) : last.secret # u.password

\* C10: a login whose identifier is unknown and a login with a wrong secret get
\* the same answer, 401 "Invalid credentials", at both login endpoints
C10_LoginFailureIndistinguishable ==
  ( /\ last.ident # Undefined /\ last.secret # Undefined
    /\ UnknownOrWrongSecret
    /\ last.status # 500 )
    => (last.status = 401 /\ last.message = "Invalid credentials")

\* the two logout routes
LogoutOps == {"POST /owner-auth/logout", "GET /auth/logout"}

\* C11: a logout clears the connect.sid cookie whether session.destroy
\* succeeded or failed, and answers 500 when it failed
C11_LogoutClearsCookie ==
  last.op \in LogoutOps =>
    /\ last.cookieCleared
    /\ last.status \in {200, 500}

\* C12: while the session holds the owner or the user a login wrote, GET
\* /owner-auth/status and GET /auth/status answer isAuthenticated = true with
\* that principal's fields: id, library code, owner name and owner email of the
\* owner; id, username, role and permissions of the user
C12_StatusRoundTrip ==
  /\ (last.op = "GET /owner-auth/status" /\ Truthy(session.owner)) =>
        /\ last.isAuthenticated
        /\ last.principal = session.owner
  /\ (last.op = "GET /auth/status" /\ Truthy(session.owner)) =>
        /\ last.isAuthenticated
        /\ last.principal.id = session.owner.id
        /\ last.principal.library_code = session.owner.libraryCode
        /\ last.principal.name = session.owner.ownerName
        /\ last.principal.email = session.owner.ownerEmail
  /\ (last.op = "GET /auth/status" /\ ~Truthy(session.owner)
        /\ Truthy(session.user)) =>
        /\ last.isAuthenticated
        /\ last.principal = session.user

LoginOps == {"POST /owner-auth/login", "POST /auth/login"}

\* every gate turns session s away with 401, whatever it requires
EveryGateRejects(s) ==
  LET Rejected(g) == ~g.next /\ g.status = 401
  IN /\ \A p \in Perms : Rejected(checkPermission(p, s, FreshReq))
     /\ \A R \in SUBSET Perms, logic \in Logics :
          Rejected(checkPermissions(R, logic, s, FreshReq))
     /\ Rejected(checkAdmin(s, FreshReq))
     /\ Rejected(checkAdminOrStaff(s, FreshReq))
     /\ Rejected(authenticateOwner(s, FreshReq))
     /\ Rejected(authenticateStudent(s, FreshReq))
     /\ Rejected(authenticateUser(s, FreshReq))
     /\ Rejected(authenticateAny(s, FreshReq))
     /\ Rejected(ensureOwnerDataIsolation(s, FreshReq))
     /\ Rejected(ownerAuthAuthenticateOwner(s, FreshReq))
     /\ Rejected(ownerAuthEnsureOwnerDataIsolation(s, FreshReq))

\* the session holds no principal: status reads say so and every gate rejects
LoggedOut ==
  /\ ActiveSlots = {}
  /\ ~OwnerStatusBody(session).isAuthenticated
  /\ ~StatusBody(session).isAuthenticated
  /\ EveryGateRejects(session)

\* C13: a logout answered 200 leaves the session without owner, user and
\* student; from then on both status reads answer isAuthenticated = false and
\* every gate answers 401, and that only ends with a login answered 200
C13_LogoutIsFinal ==
  /\ [](last.op \in LogoutOps /\ last.status = 200 => LoggedOut)
  /\ [][LoggedOut => (LoggedOut' \/ (last'.op \in LoginOps /\ last'.status = 200))]_vars

\* GET /auth/logout answered 200 and cleared the cookie; the session is empty
\* and whatever gate is served next turns it away
C13_Witness ==
  /\ last.op = "GET /auth/logout" /\ last.status = 200 /\ last.cookieCleared
  /\ session = EmptySession
  /\ EveryGateRejects(session)

\* C14: a GET /auth/refresh answered 200 on a session that holds a user leaves
\* session.user with the role and the permissions stored for that user id when
\* the refresh ran (steps that change the tables are the data layer's, not the
\* refresh)
C14_RefreshMakesStoredEffective ==
  [][ ( /\ last'.op = "GET /auth/refresh" /\ last'.status = 200
        /\ users' = users /\ libraries' = libraries
        /\ Truthy(session'.user) )
      => \E u \in users' :
           /\ u.id = session'.user.id
           /\ session'.user.role = u.role
           /\ session'.user.permissions = OrEmpty(u.permissions) ]_vars

\* the gates that authorize: by permission or by role
AuthorizationOps ==
  {"checkPermission", "checkPermissions", "checkAdmin", "checkAdminOrStaff"}

\* C15: an authorization gate that rejects answers 403 when the session holds
\* a user (who then lacks the permission or the role) and 401 only when it
\* holds none
C15_StatusMapping ==
  (last.op \in AuthorizationOps /\ ~last.next) =>
    /\ last.status \in {401, 403}
    /\ last.status = 403 <=> Truthy(session.user)

\* the session's principal is a user of role staff
StaffUser ==
  ~Truthy(session.owner) /\ Truthy(session.user) /\ session.user.role = "staff"

\* the permissions the session's user holds meet what the request served last
\* required: all of them under AND, one of them otherwise
RequirementMet ==
  LET held == OrEmpty(session.user.permissions)
  IN IF ToUpperCase(last.logic) = "AND"
     THEN last.required \subseteq held
     ELSE last.required \cap held # {}

\* C16: a staff user whose permissions do not meet the requirement is refused
\* by checkPermissions with 403, and the same session passes checkAdminOrStaff
C16_StaffIsNoBypass ==
  StaffUser =>
    /\ (last.op = "checkPermissions" /\ ~RequirementMet)
          => (~last.next /\ last.status = 403)
    /\ last.op = "checkAdminOrStaff" => Admitted
    /\ checkAdminOrStaff(session, FreshReq).next

\* a staff user without permissions was refused by checkPermissions although
\* one permission out of two would have been enough
C16_Witness ==
  /\ StaffUser /\ OrEmpty(session.user.permissions) = {}
  /\ last.op = "checkPermissions" /\ last.required = Perms /\ last.logic = "OR"
  /\ ~last.next /\ last.status = 403
  /\ checkAdminOrStaff(session, FreshReq).next

\* checkPermissions([], 'OR'), which is also checkPermissions(), served last on
\* a session whose principal is a user
EmptyAnyOnUser ==
  /\ last.op = "checkPermissions" /\ last.required = {} /\ last.logic = "OR"
  /\ ~Truthy(session.owner) /\ Truthy(session.user)

C18_GatesFailFast ==
  /\ last.op \in GateOps =>
        \/ last.next /\ last.status = 0 /\ last.message = ""
        \/ ~last.next /\ last.status \in {401, 403} /\ last.message # ""
  /\ (last.op \in BranchOps /\ ~last.next) =>
        /\ last.status \in {401, 403}
        /\ ~last.queried /\ last.rows = {}
        /\ branches = last.before
  /\ (last.op \in BranchOps /\ last.next) => last.status \notin {401, 403}

\* POST /branches by a user without manage_branches: 403 from the gate, no
\* insert
C18_Witness ==
  /\ last.op = "POST /branches" /\ NonAdminUser
  /\ ~last.next /\ last.status = 403
  /\ ~last.queried /\ branches = last.before

\* one of authenticateOwner, authenticateUser, authenticateStudent would call
\* next on the session
OneOfThreeAdmits ==
  \/ authenticateOwner(session, FreshReq).next
  \/ authenticateUser(session, FreshReq).next
  \/ authenticateStudent(session, FreshReq).next

\* C19 as stated: authenticateAny calls next iff the session holds an owner, a
\* user or a student, answers 401 otherwise, and calls next exactly when one of
\* authenticateOwner, authenticateUser, authenticateStudent would
C19_AdmitsWhoeverIsHeld ==
  last.op = "authenticateAny" =>
    /\ last.next <=> ActiveSlots # {}
    /\ ~last.next => last.status = 401
    /\ last.next <=> OneOfThreeAdmits

\* C19 as amended: authenticateAny calls next iff the session holds an owner, a
\* user or a student with an id, answers 401 otherwise, and calls next exactly
\* when one of authenticateOwner, authenticateUser, authenticateStudent would
C19_AdmitsWhoeverHasId ==
  last.op = "authenticateAny" =>
    /\ last.next <=> \E slot \in ActiveSlots : TruthyId(session[slot].id)
    /\ ~last.next => last.status = 401
    /\ last.next <=> OneOfThreeAdmits

\* a session holding only a student passed authenticateAny; authenticateStudent
\* would admit it, authenticateOwner and authenticateUser would not
C19_Witness ==
  /\ last.op = "authenticateAny" /\ last.next
  /\ ActiveSlots = {"student"}
  /\ authenticateStudent(session, FreshReq).next
  /\ ~authenticateOwner(session, FreshReq).next
  /\ ~authenticateUser(session, FreshReq).next

\* C20: a request answered by a gate, admitted or rejected, leaves the owner,
\* user and student slots of the session and the tables as they were, and so
\* does a /branches request its gate rejected; what a gate writes is the request
\* context
C20_GatesReadOnly ==
  [][ ( \/ last'.op \in GateOps
        \/ last'.op \in BranchOps /\ ~last'.next )
      => /\ session' = session
         /\ UNCHANGED <<libraries, users, branches>> ]_vars

\* authenticateOwner admitted an owner and bound req.owner and req.libraryId;
\* the session still holds that owner
C20_Witness ==
  /\ last.op = "authenticateOwner" /\ last.next
  /\ OwnerTenant
  /\ last.req.owner = session.owner
  /\ last.req.libraryId = session.owner.id

\* C21: a login answered 400, 401 or 500 leaves the session as it was, and a
\* slot of the session that was empty is filled only by a login answered 200
C21_FailedLoginKeepsSession ==
  [][ /\ (last'.op \in LoginOps /\ last'.status # 200) => session' = session
      /\ \A slot \in {"owner", "user", "student"} :
           (~Truthy(session[slot]) /\ Truthy(session'[slot]))
             => (last'.op \in LoginOps /\ last'.status = 200) ]_vars

\* an owner login was refused because the library is suspended; the owner and
\* the user the session held before are still there
C21_Witness ==
  /\ last.op = "POST /owner-auth/login" /\ last.status = 401
  /\ last.message = "Library account is suspended. Please contact support."
  /\ Truthy(session.owner) /\ Truthy(session.user)

\* the principal the refresh served last did not find still passes: the owner
\* passes authenticateOwner and checkPermissions whatever is required, the
\* user passes authenticateUser and is never sent to log in by checkPermissions
StillPasses ==
  /\ authenticateAny(session, FreshReq).next
  /\ last.message = "Library owner not found" =>
        /\ authenticateOwner(session, FreshReq).next
        /\ \A R \in SUBSET Perms, logic \in Logics :
             checkPermissions(R, logic, session, FreshReq).next
  /\ last.message = "User not found" =>
        /\ authenticateUser(session, FreshReq).next
        /\ \A R \in SUBSET Perms, logic \in Logics :
             checkPermissions(R, logic, session, FreshReq).status # 401

\* C22: a refresh answered 401, 404, 400 or 500 leaves the session as it was,
\* and after a 404 the principal whose row is gone is still in the session and
\* still passes the gates
C22_FailedRefreshKeepsSession ==
  /\ [][(last'.op = "GET /auth/refresh" /\ last'.status # 200)
          => session' = session]_vars
  /\ [](last.op = "GET /auth/refresh" /\ last.status = 404 => StillPasses)

\* the user's row was removed, the refresh answered 404, and the session still
\* holds the user
C22_Witness ==
  /\ last.op = "GET /auth/refresh" /\ last.status = 404
  /\ last.message = "User not found"
  /\ users = {}
  /\ Truthy(session.user) /\ TruthyId(session.user.id)
  /\ authenticateUser(session, FreshReq).next

\* C23: when a refresh resumes after a logout that was answered 200 while the
\* refresh waited for its query, the session holds no owner, user or student
\* once the refresh has answered
C23_LogoutFinalUnderInterleaving ==
  [][ ( /\ pending.phase = "awaiting" /\ pending'.phase = "idle"
        /\ last.op \in LogoutOps /\ last.status = 200
        /\ session = EmptySession )
      => \A slot \in {"owner", "user", "student"} : ~Truthy(session'[slot]) ]_vars

\* the session's user, if there is one, is not of role staff
NoStaffUser == Truthy(session.user) => session.user.role # "staff"

\* C24: on a session whose user, if any, is not staff, checkPermission(p) calls
\* next iff checkPermissions([p], 'OR') does, for every p, also when the session
\* holds an owner and a user; the outcome of a served checkPermission(p) is the
\* one compared
C24_GatesAgree ==
  NoStaffUser =>
    /\ \A p \in Perms :
         checkPermission(p, session, FreshReq).next
           <=> checkPermissions({p}, "OR", session, FreshReq).next
    /\ last.op = "checkPermission" =>
         \A p \in last.required :
           last.next <=> checkPermissions({p}, "OR", session, FreshReq).next

\* an owner beside a user who lacks the permission passed checkPermission, and
\* checkPermissions on the same permission would admit the session too
C24_Witness ==
  /\ last.op = "checkPermission" /\ last.required = {"manage_branches"}
  /\ Truthy(session.owner) /\ Truthy(session.user)
  /\ session.user.role = "other" /\ OrEmpty(session.user.permissions) = {}
  /\ last.next
  /\ checkPermissions({"manage_branches"}, "OR", session, FreshReq).next

====
